---- MODULE Spec2Model ----
(***************************************************************************)
(* Model of scipy/special/_support_alternative_backends.py: the dispatcher *)
(* get_array_special_func, the generic fallback factories and closures,    *)
(* and the synthesized NumPy-conversion implementation.                    *)
(***************************************************************************)
EXTENDS Integers, Sequences, FiniteSets, TLC

VARIABLES xp, op, f_name, ret, fac, args, out, eff

vars == <<xp, op, f_name, ret, fac, args, out, eff>>

-----------------------------------------------------------------------------
(* Bounds of the model *)

\* largest number of names a back end's spx.special exposes
MaxExposed == 1
\* largest length of an argument array
ArrLen == 1
\* finite float inputs are the integers -1 .. MaxFinite
MaxFinite == 2
\* data elements of the arrays given to the synthesized implementation
MaxData == 1

-----------------------------------------------------------------------------
(* Names *)

\* function name: number of args
array_special_func_map ==
    [n \in {"log_ndtr", "ndtr", "ndtri", "erf", "erfc", "i0", "i0e", "i1",
            "i1e", "gammaln", "logit", "expit", "entr"} |-> 1]
    @@ [n \in {"gammainc", "gammaincc", "rel_entr", "xlogy", "chdtr",
               "chdtrc", "stdtr", "stdtrit"} |-> 2]
    @@ [n \in {"betainc", "betaincc"} |-> 3]

Names == DOMAIN array_special_func_map

\* the primitives the factories look up
Primitives == {"gammainc", "gammaincc", "betainc"}

\* the absent value
None == [tier |-> "None", name |-> "None", prim |-> "None", on |-> "None"]

-----------------------------------------------------------------------------
(* Back ends.  A back end xp is described by what the code asks of it:     *)
(*   kind     which of is_numpy / is_marray / is_dask holds (or none)      *)
(*   spx      what scipy_namespace_for(xp) returns: absent, or a           *)
(*            namespace whose .special exposes the names in spx.special    *)
(*   special  whether xp has a 'special' attribute and which primitives it *)
(*            exposes (only primitives are ever looked up there)           *)
(*   inner    the namespace of the data held by a masked or chunked array  *)

Kinds == {"numpy", "marray", "dask", "other"}

RECURSIVE SubsetsUpTo(_, _)
SubsetsUpTo(S, n) ==
    IF n = 0 THEN {{}}
    ELSE LET P == SubsetsUpTo(S, n - 1)
         IN  P \cup {s \cup {a} : s \in P, a \in S}

NoNamespace == [present |-> FALSE, special |-> {}]

Namespaces(pool, n) ==
    {NoNamespace} \cup {[present |-> TRUE, special |-> s] : s \in SubsetsUpTo(pool, n)}

Backends ==
    [kind : Kinds,
     spx : Namespaces(Names, MaxExposed),
     special : {NoNamespace} \cup {[present |-> TRUE, special |-> s] : s \in SUBSET Primitives},
     inner : {"numpy"}]

is_numpy(b) == b.kind = "numpy"
is_marray(b) == b.kind = "marray"
is_dask(b) == b.kind = "dask"
scipy_namespace_for(b) == b.spx

-----------------------------------------------------------------------------
(* Factories of the generic implementations *)

\* a closure over a primitive found in the SciPy-style namespace ("spx") or
\* in the back end's own special attribute ("xp")
Closure(name, prim, b) == [tier |-> "generic", name |-> name, prim |-> prim, on |-> b.kind]

\* variant: the back end's own special attribute is never consulted
_get_native_func_spx_only(b, spx, name) ==
    IF spx.present /\ name \in spx.special THEN "spx" ELSE "None"

_get_native_func(b, spx, name) ==
    LET f == IF spx.present /\ name \in spx.special THEN "spx" ELSE "None"
    IN  IF f = "None" /\ b.special.present
        THEN (IF name \in b.special.special THEN "xp" ELSE "None")
        ELSE f

_rel_entr(b, spx) == Closure("rel_entr", "-", b)

\* variant: the factory gives up when the back end has no SciPy-style namespace
_xlogy_needs_spx(b, spx) ==
    IF spx.present THEN Closure("xlogy", "-", b) ELSE None

_xlogy(b, spx) == Closure("xlogy", "-", b)

_chdtr(b, spx) ==
    LET gammainc == _get_native_func(b, spx, "gammainc")
    IN  IF gammainc = "None" THEN None ELSE Closure("chdtr", gammainc, b)

_chdtrc(b, spx) ==
    LET gammaincc == _get_native_func(b, spx, "gammaincc")
    IN  IF gammaincc = "None" THEN None ELSE Closure("chdtrc", gammaincc, b)

_betaincc(b, spx) ==
    LET betainc == _get_native_func(b, spx, "betainc")
    IN  IF betainc = "None" THEN None ELSE Closure("betaincc", betainc, b)

_stdtr(b, spx) ==
    LET betainc == _get_native_func(b, spx, "betainc")
    IN  IF betainc = "None" THEN None ELSE Closure("stdtr", betainc, b)

_stdtrit(b, spx) ==
    LET betainc == _get_native_func(b, spx, "betainc")
    IN  IF betainc = "None" THEN None ELSE Closure("stdtrit", betainc, b)

GenericKeys == {"rel_entr", "xlogy", "chdtr", "chdtrc", "betaincc", "stdtr", "stdtrit"}

_generic_implementations(name, b, spx) ==
    CASE name = "rel_entr" -> _rel_entr(b, spx)
      [] name = "xlogy"    -> _xlogy(b, spx)
      [] name = "chdtr"    -> _chdtr(b, spx)
      [] name = "chdtrc"   -> _chdtrc(b, spx)
      [] name = "betaincc" -> _betaincc(b, spx)
      [] name = "stdtr"    -> _stdtr(b, spx)
      [] name = "stdtrit"  -> _stdtrit(b, spx)

-----------------------------------------------------------------------------
(* The dispatcher *)

\* the compiled kernel getattr(_ufuncs, f_name)
Ufunc(name) == [tier |-> "ufunc", name |-> name, prim |-> "-", on |-> "numpy"]

\* getattr(spx.special, f_name)
NativeFunc(name, b) == [tier |-> "native", name |-> name, prim |-> "-", on |-> b.kind]

\* the local function f, closed over f_name and xp
SynthFunc(name, b) == [tier |-> "synth", name |-> name, prim |-> "-", on |-> b.kind]

\* variant: the fallback table is consulted before the back end's namespace
get_array_special_func_generic_first(name, b) ==
    IF is_numpy(b) THEN Ufunc(name)
    ELSE LET spx == scipy_namespace_for(b)
             g == IF name \in GenericKeys
                  THEN _generic_implementations(name, b, spx)
                  ELSE None
         IN  IF name \in GenericKeys /\ g # None THEN g
             ELSE IF spx.present /\ name \in spx.special THEN NativeFunc(name, b)
             ELSE SynthFunc(name, b)

\* variant: the factory's result is returned without the 'is not None' test
get_array_special_func_no_none_test(name, b) ==
    IF is_numpy(b) THEN Ufunc(name)
    ELSE LET spx == scipy_namespace_for(b)
         IN  IF spx.present /\ name \in spx.special THEN NativeFunc(name, b)
             ELSE IF name \in GenericKeys THEN _generic_implementations(name, b, spx)
             ELSE SynthFunc(name, b)

get_array_special_func(name, b) ==
    IF is_numpy(b) THEN Ufunc(name)
    ELSE LET spx == scipy_namespace_for(b)
             g == IF name \in GenericKeys
                  THEN _generic_implementations(name, b, spx)
                  ELSE None
         IN  IF spx.present /\ name \in spx.special THEN NativeFunc(name, b)
             ELSE IF name \in GenericKeys /\ g # None THEN g
             ELSE SynthFunc(name, b)

-----------------------------------------------------------------------------
(* State *)

NoArgs == <<>>
NoOut == [ns |-> "None", data |-> <<>>, mask |-> <<>>]
NoEff == [path |-> "None", logs |-> {}, prims |-> <<>>, raised |-> {}, warnings |-> {}, entry |-> "None"]

Init ==
    /\ xp \in Backends
    /\ op = "init"
    /\ f_name = "None"
    /\ ret = None
    /\ fac = None
    /\ args = NoArgs
    /\ out = NoOut
    /\ eff = NoEff

\* f = get_array_special_func(f_name, xp)
Dispatch(name) ==
    /\ op \in {"init", "get_array_special_func", "factory"}
    /\ op' = "get_array_special_func"
    /\ f_name' = name
    /\ ret' = get_array_special_func(name, xp)
    /\ fac' = None
    /\ UNCHANGED <<xp, args, out, eff>>

\* _generic_implementations[f_name](xp=xp, spx=spx), called on its own
Factory(name) ==
    /\ op \in {"init", "get_array_special_func", "factory"}
    /\ op' = "factory"
    /\ f_name' = name
    /\ fac' = _generic_implementations(name, xp, scipy_namespace_for(xp))
    /\ ret' = None
    /\ UNCHANGED <<xp, args, out, eff>>

Next ==
    \/ \E name \in Names : Dispatch(name)
    \/ \E name \in GenericKeys : Factory(name)

Spec == Init /\ [][Next]_vars

-----------------------------------------------------------------------------
(* Properties of the dispatcher and of the factories *)

DispatchActed == op = "get_array_special_func"
FactoryActed == op = "factory"

\* the primitive a fallback-table name needs from the back end ("-" if none)
Required(name) ==
    CASE name = "chdtr" -> "gammainc"
      [] name = "chdtrc" -> "gammaincc"
      [] name \in {"betaincc", "stdtr", "stdtrit"} -> "betainc"
      [] OTHER -> "-"

\* the back end has the primitive in spx.special or in xp.special
HasPrimitive(b, prim) ==
    \/ b.spx.present /\ prim \in b.spx.special
    \/ b.special.present /\ prim \in b.special.special

Exposes(b, name) == b.spx.present /\ name \in b.spx.special

UsableFallback(b, name) ==
    /\ name \in GenericKeys
    /\ Required(name) = "-" \/ HasPrimitive(b, Required(name))

\* C1: the dispatcher picks, in strict priority order, the compiled kernel
\* (native back end), the back end's own function of that name, the generic
\* fallback whose factory returns a function, and last the synthesized
\* implementation; no lower tier is returned when a higher one matches.
Thm_C1 ==
    DispatchActed =>
        /\ is_numpy(xp) => ret = [tier |-> "ufunc", name |-> f_name, prim |-> "-", on |-> "numpy"]
        /\ (~is_numpy(xp) /\ Exposes(xp, f_name)) =>
               (ret.tier = "native" /\ ret.name = f_name)
        /\ (~is_numpy(xp) /\ ~Exposes(xp, f_name) /\ UsableFallback(xp, f_name)) =>
               (ret.tier = "generic" /\ ret.name = f_name)
        /\ (~is_numpy(xp) /\ ~Exposes(xp, f_name) /\ ~UsableFallback(xp, f_name)) =>
               (ret.tier = "synth" /\ ret.name = f_name)

\* a back end's own function wins although a usable fallback is registered
Wit_C1 ==
    /\ DispatchActed
    /\ ret.tier = "native"
    /\ f_name = "chdtr"
    /\ UsableFallback(xp, f_name)

\* C2: dispatch is total: every name on every back end resolves to a
\* callable; a name outside the fallback table resolves to the kernel, a
\* native function or the synthesis; and when a factory returns None the
\* result is exactly the synthesis a name without fallback would get.
Thm_C2 ==
    DispatchActed =>
        /\ ret.tier \in {"ufunc", "native", "generic", "synth"}
        /\ ret.name = f_name
        /\ f_name \notin GenericKeys => ret.tier \in {"ufunc", "native", "synth"}
        /\ (/\ f_name \in GenericKeys
            /\ ~is_numpy(xp)
            /\ ~Exposes(xp, f_name)
            /\ _generic_implementations(f_name, xp, scipy_namespace_for(xp)) = None) =>
               ret = [tier |-> "synth", name |-> f_name, prim |-> "-", on |-> xp.kind]

\* a factory returned None and the dispatcher went on to the synthesis
Wit_C2 ==
    /\ DispatchActed
    /\ ret.tier = "synth"
    /\ f_name = "stdtrit"
    /\ xp.spx.present
    /\ ~HasPrimitive(xp, "betainc")

\* C3: a primitive-dependent factory returns None exactly when its
\* primitive is missing from both spx.special and xp.special, and then
\* builds no closure; stdtr and stdtrit are available for the same back ends.
Thm_C3 ==
    (FactoryActed /\ Required(f_name) # "-") =>
        /\ (fac = None) <=> ~HasPrimitive(xp, Required(f_name))
        /\ fac # None => (fac.tier = "generic" /\ fac.name = f_name /\ fac.prim \in {"spx", "xp"})
        /\ f_name \in {"stdtr", "stdtrit"} =>
               /\ (fac = None) <=> (_stdtr(xp, scipy_namespace_for(xp)) = None)
               /\ (fac = None) <=> (_stdtrit(xp, scipy_namespace_for(xp)) = None)

\* the primitive is found only in the back end's own special attribute
Wit_C3 ==
    /\ FactoryActed
    /\ f_name = "stdtrit"
    /\ fac # None
    /\ fac.prim = "xp"
    /\ ~Exposes(xp, "betainc")

\* C10: the rel_entr and xlogy factories return a function for every back
\* end, so on a non-native back end the dispatcher never returns the
\* synthesized implementation for these two names.
Thm_C10 ==
    f_name \in {"rel_entr", "xlogy"} =>
        /\ FactoryActed => (fac # None /\ fac.tier = "generic")
        /\ (DispatchActed /\ ~is_numpy(xp)) => ret.tier \in {"native", "generic"}

\* xlogy on a masked back end without any special namespace: the fallback
Wit_C10 ==
    /\ DispatchActed
    /\ f_name = "xlogy"
    /\ is_marray(xp)
    /\ ~xp.spx.present
    /\ ~xp.special.present
    /\ ret.tier = "generic"

-----------------------------------------------------------------------------
(* Arrays.  An array has the namespace it belongs to, its elements, and,   *)
(* on the masked back end, one mask bit per element (<<>> otherwise).      *)

Array(ns, data, mask) == [ns |-> ns, data |-> data, mask |-> mask]

\* the value an elementwise kernel gives for one tuple of elements
KernelValue(name, elems) == [fn |-> name, a |-> elems]

\* getattr(_ufuncs, f_name)(*arrs): the compiled kernel, element by element
UfuncCall(name, arrs) ==
    Array("numpy",
          [i \in 1..Len(arrs[1].data) |->
              KernelValue(name, [j \in 1..Len(arrs) |-> arrs[j].data[i]])],
          <<>>)

\* np.asarray(arg)
np_asarray(arr) == Array("numpy", arr.data, <<>>)

\* xp.asarray(out) and xp.asarray(out, mask=mask)
xp_asarray(b, arr, mask) == Array(b.kind, arr.data, mask)

\* the last branch of the synthesized f: convert, call the kernel, convert back
f_numpy(name, b, arrs) ==
    xp_asarray(b, UfuncCall(name, [j \in 1..Len(arrs) |-> np_asarray(arrs[j])]), <<>>)

\* the back end array_namespace finds for the data of a masked or chunked
\* array: NumPy itself, or a back end without any special namespace
InnerBackend(kind) ==
    [kind |-> kind, spx |-> NoNamespace, special |-> NoNamespace, inner |-> "numpy"]

\* globals()[f_name]: the public entry point built by
\* support_alternative_backends (SCIPY_ARRAY_API set, the configuration in
\* which the dispatcher is installed), called on arrays of the namespace ns
wrapped(name, ns, arrs) ==
    LET f == get_array_special_func(name, InnerBackend(ns))
    IN  IF f.tier = "ufunc" THEN UfuncCall(name, arrs)
        ELSE f_numpy(name, InnerBackend(ns), arrs)

\* functools.reduce(operator.or_, (arg.mask for arg in args))
reduce_or(arrs) ==
    [i \in 1..Len(arrs[1].mask) |-> \E j \in 1..Len(arrs) : arrs[j].mask[i]]

\* the elements lo..hi of an array, as a block in the namespace ns
Block(arr, ns, lo, hi) ==
    Array(ns, [i \in 1..(hi - lo + 1) |-> arr.data[lo + i - 1]], <<>>)

\* xp.map_blocks(_f, *args) with the chunks 1..cut and cut+1..L
map_blocks(name, b, arrs, cut) ==
    LET L == Len(arrs[1].data)
        lo == wrapped(name, b.inner, [j \in 1..Len(arrs) |-> Block(arrs[j], b.inner, 1, cut)])
        hi == wrapped(name, b.inner, [j \in 1..Len(arrs) |-> Block(arrs[j], b.inner, cut + 1, L)])
    IN  Array("dask", lo.data \o hi.data, <<>>)

\* variant: masked elements are replaced by a fill value before the call
f_fill_masked(name, b, arrs, cut) ==
    IF is_marray(b)
    THEN LET data_args == [j \in 1..Len(arrs) |->
                 Array(b.inner,
                       [i \in 1..Len(arrs[j].data) |->
                           IF arrs[j].mask[i] THEN 0 ELSE arrs[j].data[i]],
                       <<>>)]
             o == wrapped(name, b.inner, data_args)
         IN  xp_asarray(b, o, reduce_or(arrs))
    ELSE IF is_dask(b) THEN map_blocks(name, b, arrs, cut)
    ELSE f_numpy(name, b, arrs)

\* the synthesized implementation f(*args)
f(name, b, arrs, cut) ==
    IF is_marray(b)
    THEN LET data_args == [j \in 1..Len(arrs) |-> Array(b.inner, arrs[j].data, <<>>)]
             o == wrapped(name, b.inner, data_args)
             mask == reduce_or(arrs)
         IN  xp_asarray(b, o, mask)
    ELSE IF is_dask(b) THEN map_blocks(name, b, arrs, cut)
    ELSE f_numpy(name, b, arrs)

\* the branch of f that runs, and the callable it hands the data to
f_path(b) ==
    IF is_marray(b) THEN [path |-> "marray", entry |-> "globals"]
    ELSE IF is_dask(b) THEN [path |-> "dask", entry |-> "globals"]
    ELSE [path |-> "numpy", entry |-> "_ufuncs"]

-----------------------------------------------------------------------------
(* Calling the synthesized implementation *)

\* the arrays of length L a caller on back end b can pass
SynthArrays(b, L) ==
    {Array(b.kind, d, m) :
        d \in [1..L -> 0..MaxData],
        m \in IF is_marray(b) THEN [1..L -> BOOLEAN] ELSE {<<>>}}

SynthBackends ==
    {b \in [kind : Kinds,
            spx : {NoNamespace, [present |-> TRUE, special |-> {}]},
            special : {NoNamespace},
            inner : {"numpy", "other"}] :
        b.kind \in {"numpy", "other"} => b.inner = "numpy"}

InitSynth ==
    /\ xp \in SynthBackends
    /\ op = "init"
    /\ f_name = "None"
    /\ ret = None
    /\ fac = None
    /\ args = NoArgs
    /\ out = NoOut
    /\ eff = NoEff

\* f(*args) for the f returned by the last get_array_special_func
CallSynth ==
    /\ op = "get_array_special_func"
    /\ ret.tier = "synth"
    /\ \E L \in 1..ArrLen :
         \E a \in [1..array_special_func_map[f_name] -> SynthArrays(xp, L)] :
           \E cut \in IF is_dask(xp) THEN 0..L ELSE {0} :
             /\ args' = a
             /\ out' = f(f_name, xp, a, cut)
    /\ op' = "f"
    /\ eff' = [NoEff EXCEPT !.path = f_path(xp).path, !.entry = f_path(xp).entry]
    /\ UNCHANGED <<xp, f_name, ret, fac>>

\* the call returns to its caller; the module keeps nothing of it
Return ==
    /\ op \notin {"init", "get_array_special_func", "factory"}
    /\ op' = "init"
    /\ f_name' = "None"
    /\ ret' = None
    /\ fac' = None
    /\ args' = NoArgs
    /\ out' = NoOut
    /\ eff' = NoEff
    /\ UNCHANGED xp

NextSynth ==
    \/ \E name \in Names : Dispatch(name)
    \/ CallSynth
    \/ Return

SpecSynth == InitSynth /\ [][NextSynth]_vars

\* C4: on the masked back end the synthesized implementation computes every
\* result element from the arguments' data at that element only, through the
\* public entry point of the same name, and masks an output element iff at
\* least one argument is masked there.
Thm_C4 ==
    (op = "f" /\ is_marray(xp)) =>
        /\ eff.entry = "globals"
        /\ out.ns = "marray"
        /\ Len(out.data) = Len(args[1].data)
        /\ Len(out.mask) = Len(args[1].data)
        /\ \A i \in 1..Len(out.data) :
              /\ out.data[i].fn = f_name
              /\ out.data[i].a = [j \in 1..Len(args) |-> args[j].data[i]]
              /\ out.mask[i] <=> (\E j \in 1..Len(args) : args[j].mask[i])

\* three arguments, the second one alone masked, a non-zero datum under the mask
Wit_C4 ==
    /\ op = "f"
    /\ is_marray(xp)
    /\ Len(args) = 3
    /\ ~args[1].mask[1] /\ args[2].mask[1] /\ ~args[3].mask[1]
    /\ args[2].data[1] = 1
    /\ out.mask[1]

-----------------------------------------------------------------------------
(* Floating-point values.  A value is NaN, an infinity, an integer, or one *)
(* of the finite terms the closures build from integers:                   *)
(*   xlog      a * ln(b)            with b >= 2                            *)
(*   xlogdiff  a * (ln(b) - ln(c))  with b # c, b >= 1, c >= 1             *)
(*   half      a / 2                                                       *)
(*   prim      a finite value returned by a back end primitive            *)

Float(k, a, b, c) == [k |-> k, a |-> a, b |-> b, c |-> c]
NaN == Float("nan", 0, 0, 0)
PInf == Float("pinf", 0, 0, 0)
NInf == Float("ninf", 0, 0, 0)
Num(n) == Float("int", n, 0, 0)
XLog(a, b) == Float("xlog", a, b, 0)
XLogDiff(a, b, c) == Float("xlogdiff", a, b, c)
Opaque == Float("prim", 0, 0, 0)

Floats == {NaN, PInf, NInf} \cup {Num(n) : n \in -1..MaxFinite}

\* what a back end primitive (gammainc, gammaincc) may return for an element
PrimVals == {NaN, Num(1), Opaque}

SignOf(n) == IF n > 0 THEN 1 ELSE IF n < 0 THEN -1 ELSE 0

\* the sign of a value that is not NaN
Sign(v) ==
    CASE v.k = "pinf" -> 1
      [] v.k = "ninf" -> -1
      [] v.k = "int" -> SignOf(v.a)
      [] v.k = "xlog" -> SignOf(v.a)
      [] v.k = "xlogdiff" -> SignOf(v.a) * SignOf(v.b - v.c)
      [] OTHER -> 1

isnan(v) == v.k = "nan"
isinf(v) == v.k \in {"pinf", "ninf"}
\* comparisons with 0; every comparison with NaN is false
gt0(v) == ~isnan(v) /\ Sign(v) > 0
ge0(v) == ~isnan(v) /\ Sign(v) >= 0
le0(v) == ~isnan(v) /\ Sign(v) <= 0
eq0(v) == ~isnan(v) /\ Sign(v) = 0

\* xp.log of an input value
Log(v) ==
    CASE v.k = "pinf" -> PInf
      [] v.k = "int" /\ v.a = 0 -> NInf
      [] v.k = "int" /\ v.a = 1 -> Num(0)
      [] v.k = "int" /\ v.a >= 2 -> XLog(1, v.a)
      [] OTHER -> NaN

\* the floating-point conditions xp.log signals
LogSignals(v) ==
    IF v.k = "int" /\ v.a = 0 THEN {"divide"}
    ELSE IF v.k = "ninf" \/ (v.k = "int" /\ v.a < 0) THEN {"invalid"}
    ELSE {}

\* the argument of a finite logarithm: ln(1) is the integer 0
LogArg(v) == IF v.k = "xlog" THEN v.b ELSE 1

\* p - q for two logarithms
Sub(p, q) ==
    IF isnan(p) \/ isnan(q) THEN NaN
    ELSE IF isinf(p) /\ isinf(q) THEN (IF p = q THEN NaN ELSE p)
    ELSE IF isinf(p) THEN p
    ELSE IF isinf(q) THEN (IF q = PInf THEN NInf ELSE PInf)
    ELSE IF LogArg(p) = LogArg(q) THEN Num(0)
    ELSE XLogDiff(1, LogArg(p), LogArg(q))

\* x * t for an input x and an integer, a logarithm or a difference of them
Mul(x, t) ==
    IF isnan(x) \/ isnan(t) THEN NaN
    ELSE IF isinf(x) \/ isinf(t)
         THEN (IF Sign(x) * Sign(t) = 0 THEN NaN
               ELSE IF Sign(x) * Sign(t) > 0 THEN PInf ELSE NInf)
    ELSE IF Sign(x) * Sign(t) = 0 THEN Num(0)
    ELSE IF t.k = "xlog" THEN XLog(x.a * t.a, t.b)
    ELSE IF t.k = "xlogdiff" THEN XLogDiff(x.a * t.a, t.b, t.c)
    ELSE Num(x.a * t.a)

MulSignals(x, t) ==
    IF ~isnan(x) /\ ~isnan(t) /\ (isinf(x) \/ isinf(t)) /\ Sign(x) * Sign(t) = 0
    THEN {"invalid"} ELSE {}

\* v / 2
Half(v) == IF v.k = "int" THEN Float("half", v.a, 0, 0) ELSE v

-----------------------------------------------------------------------------
(* The closures of the generic implementations, on sequences of values *)

Max(a, b) == IF a >= b THEN a ELSE b

\* element i of an array broadcast against a longer one
At(arr, i) == IF Len(arr) = 1 THEN arr[1] ELSE arr[i]

\* xp_promote(x, y, broadcast=True, force_floating=True, xp=xp)
xp_promote(x, y) ==
    LET n == Max(Len(x), Len(y))
    IN  <<[i \in 1..n |-> At(x, i)], [i \in 1..n |-> At(y, i)]>>

\* xpx.apply_where(cond, (x, y), f, fill_value=fill), for the f of __rel_entr:
\* the elements where cond holds are handed to f, the others are filled
apply_where(cond, x, y, fill) ==
    [res |-> [i \in 1..Len(cond) |->
                 IF cond[i] THEN Mul(x[i], Sub(Log(x[i]), Log(y[i]))) ELSE fill],
     logs |-> {x[i] : i \in {j \in 1..Len(cond) : cond[j]}}
              \cup {y[i] : i \in {j \in 1..Len(cond) : cond[j]}}]

\* xpx.at(res)[idx].set(value)
at_set(res, idx, value) == [i \in 1..Len(res) |-> IF idx[i] THEN value ELSE res[i]]

\* xp.where(cond, a, b) with a scalar a
where(cond, a, b) == [i \in 1..Len(b) |-> IF At(cond, i) THEN a ELSE b[i]]

\* variant: the last assignment does not test y for NaN
rel_entr_no_isnan_y(x0, y0) ==
    LET p == xp_promote(x0, y0)
        x == p[1]
        y == p[2]
        n == Len(x)
        xy_pos == [i \in 1..n |-> gt0(x[i]) /\ gt0(y[i])]
        xy_inf == [i \in 1..n |-> isinf(x[i]) /\ isinf(y[i])]
        aw == apply_where([i \in 1..n |-> xy_pos[i] /\ ~xy_inf[i]], x, y, PInf)
        res1 == at_set(aw.res, [i \in 1..n |-> eq0(x[i]) /\ ge0(y[i])], Num(0))
        res2 == at_set(res1, [i \in 1..n |-> isnan(x[i]) \/ (xy_pos[i] /\ xy_inf[i])], NaN)
    IN  [res |-> res2, logs |-> aw.logs]

\* variant: the assignment of 0 where x == 0 and y >= 0 is left out
rel_entr_no_zero_rule(x0, y0) ==
    LET p == xp_promote(x0, y0)
        x == p[1]
        y == p[2]
        n == Len(x)
        xy_pos == [i \in 1..n |-> gt0(x[i]) /\ gt0(y[i])]
        xy_inf == [i \in 1..n |-> isinf(x[i]) /\ isinf(y[i])]
        aw == apply_where([i \in 1..n |-> xy_pos[i] /\ ~xy_inf[i]], x, y, PInf)
        res2 == at_set(aw.res, [i \in 1..n |->
                    isnan(x[i]) \/ isnan(y[i]) \/ (xy_pos[i] /\ xy_inf[i])], NaN)
    IN  [res |-> res2, logs |-> aw.logs]

\* __rel_entr(x, y)
rel_entr(x0, y0) ==
    LET p == xp_promote(x0, y0)
        x == p[1]
        y == p[2]
        n == Len(x)
        xy_pos == [i \in 1..n |-> gt0(x[i]) /\ gt0(y[i])]
        xy_inf == [i \in 1..n |-> isinf(x[i]) /\ isinf(y[i])]
        aw == apply_where([i \in 1..n |-> xy_pos[i] /\ ~xy_inf[i]], x, y, PInf)
        res1 == at_set(aw.res, [i \in 1..n |-> eq0(x[i]) /\ ge0(y[i])], Num(0))
        res2 == at_set(res1, [i \in 1..n |->
                    isnan(x[i]) \/ isnan(y[i]) \/ (xy_pos[i] /\ xy_inf[i])], NaN)
    IN  [res |-> res2, logs |-> aw.logs]

\* np.errstate(divide='ignore', invalid='ignore')
errstate_ignore == {"divide", "invalid"}

\* variant: x * log(y) is returned as it is
xlogy_no_where(x, y) ==
    LET n == Max(Len(x), Len(y))
        temp == [i \in 1..n |-> Mul(At(x, i), Log(At(y, i)))]
        raised == UNION {LogSignals(At(y, i)) \cup MulSignals(At(x, i), Log(At(y, i))) :
                            i \in 1..n}
    IN  [res |-> temp, raised |-> raised, warnings |-> raised \ errstate_ignore]

\* __xlogy(x, y)
xlogy(x, y) ==
    LET n == Max(Len(x), Len(y))
        temp == [i \in 1..n |-> Mul(At(x, i), Log(At(y, i)))]
        raised == UNION {LogSignals(At(y, i)) \cup MulSignals(At(x, i), Log(At(y, i))) :
                            i \in 1..n}
    IN  [res |-> where([i \in 1..Len(x) |-> eq0(x[i])], Num(0), temp),
         raised |-> raised,
         warnings |-> raised \ errstate_ignore]

\* the calls gammainc(v / 2, x / 2) and gammaincc(v / 2, x / 2): arguments
\* and the value g[i] the back end returns for each element
PrimCalls(v, x, g) ==
    [i \in 1..Len(g) |-> [a |-> Half(At(v, i)), b |-> Half(At(x, i)), r |-> g[i]]]

\* variant: the correction for v == 0 is left out
chdtr_no_degenerate(v, x, g) ==
    LET n == Len(g)
        mask2 == [i \in 1..n |-> isinf(At(v, i)) /\ isinf(At(x, i))]
    IN  where(mask2, NaN, g)

\* __chdtr(v, x), with g the values of gammainc(v / 2, x / 2)
chdtr(v, x, g) ==
    LET n == Len(g)
        mask1 == [i \in 1..n |-> eq0(At(v, i)) /\ gt0(At(x, i))]
        res == where(mask1, Num(1), g)
        mask2 == [i \in 1..n |-> isinf(At(v, i)) /\ isinf(At(x, i))]
    IN  where(mask2, NaN, res)

\* variant: v <= 0 is not part of the NaN region
chdtrc_no_v_le_0(v, x, g) ==
    LET n == Len(g)
        res == [i \in 1..n |-> IF ge0(At(x, i)) THEN g[i] ELSE Num(1)]
        i_nan == [i \in 1..n |->
                     \/ eq0(At(x, i)) /\ eq0(At(v, i))
                     \/ isnan(At(x, i))
                     \/ isnan(At(v, i))]
    IN  where(i_nan, NaN, res)

\* __chdtrc(v, x), with g the values of gammaincc(v / 2, x / 2)
chdtrc(v, x, g) ==
    LET n == Len(g)
        res == [i \in 1..n |-> IF ge0(At(x, i)) THEN g[i] ELSE Num(1)]
        i_nan == [i \in 1..n |->
                     \/ eq0(At(x, i)) /\ eq0(At(v, i))
                     \/ isnan(At(x, i))
                     \/ isnan(At(v, i))
                     \/ le0(At(v, i))]
    IN  where(i_nan, NaN, res)

-----------------------------------------------------------------------------
(* Calling the closures *)

\* pairs of broadcastable argument arrays
ArgPairs ==
    UNION {[1..2 -> UNION {[1..L -> Floats] : L \in {1, n}}] : n \in 1..ArrLen}

GenericBackends ==
    [kind : {"dask", "other"},
     spx : {NoNamespace},
     special : {NoNamespace}
               \cup {[present |-> TRUE, special |-> s] : s \in SUBSET {"gammainc", "gammaincc"}},
     inner : {"numpy"}]

InitGeneric ==
    /\ xp \in GenericBackends
    /\ op = "init"
    /\ f_name = "None"
    /\ ret = None
    /\ fac = None
    /\ args = NoArgs
    /\ out = NoOut
    /\ eff = NoEff

Generic(name) ==
    /\ op = "get_array_special_func"
    /\ ret.tier = "generic"
    /\ ret.name = name

Call_rel_entr ==
    /\ Generic("rel_entr")
    /\ \E a \in ArgPairs :
         LET r == rel_entr(a[1], a[2])
         IN  /\ args' = a
             /\ out' = Array(xp.kind, r.res, <<>>)
             /\ eff' = [NoEff EXCEPT !.path = "generic", !.logs = r.logs]
    /\ op' = "__rel_entr"
    /\ UNCHANGED <<xp, f_name, ret, fac>>

Call_xlogy ==
    /\ Generic("xlogy")
    /\ \E a \in ArgPairs :
         LET r == xlogy(a[1], a[2])
         IN  /\ args' = a
             /\ out' = Array(xp.kind, r.res, <<>>)
             /\ eff' = [NoEff EXCEPT !.path = "generic", !.raised = r.raised,
                                     !.warnings = r.warnings]
    /\ op' = "__xlogy"
    /\ UNCHANGED <<xp, f_name, ret, fac>>

Call_chdtr ==
    /\ Generic("chdtr")
    /\ \E a \in ArgPairs :
         \E g \in [1..Max(Len(a[1]), Len(a[2])) -> PrimVals] :
             /\ args' = a
             /\ out' = Array(xp.kind, chdtr(a[1], a[2], g), <<>>)
             /\ eff' = [NoEff EXCEPT !.path = "generic", !.entry = "gammainc",
                                     !.prims = PrimCalls(a[1], a[2], g)]
    /\ op' = "__chdtr"
    /\ UNCHANGED <<xp, f_name, ret, fac>>

Call_chdtrc ==
    /\ Generic("chdtrc")
    /\ \E a \in ArgPairs :
         \E g \in [1..Max(Len(a[1]), Len(a[2])) -> PrimVals] :
             /\ args' = a
             /\ out' = Array(xp.kind, chdtrc(a[1], a[2], g), <<>>)
             /\ eff' = [NoEff EXCEPT !.path = "generic", !.entry = "gammaincc",
                                     !.prims = PrimCalls(a[1], a[2], g)]
    /\ op' = "__chdtrc"
    /\ UNCHANGED <<xp, f_name, ret, fac>>

NextGeneric ==
    \/ \E name \in Names : Dispatch(name)
    \/ Call_rel_entr
    \/ Call_xlogy
    \/ Call_chdtr
    \/ Call_chdtrc
    \/ Return

SpecGeneric == InitGeneric /\ [][NextGeneric]_vars

-----------------------------------------------------------------------------
(* Properties of the generic implementations *)

\* the elements of the two arguments at output position i
X(i) == At(args[1], i)
Y(i) == At(args[2], i)
Elems == 1..Len(out.data)

\* C5 as stated: NaN wherever x is NaN, y is NaN, or x and y are both
\* infinite, whatever the signs of the two infinities.
Orig_C5 ==
    op = "__rel_entr" =>
        \A i \in Elems :
            (isnan(X(i)) \/ isnan(Y(i)) \/ (isinf(X(i)) /\ isinf(Y(i)))) =>
                out.data[i] = NaN

\* C5: rel_entr is NaN wherever x is NaN, y is NaN, or x and y are both
\* +infinity; when both are infinite and one of them is -infinity the result
\* is the default +infinity.  The NaN rule is applied last.
Thm_C5 ==
    op = "__rel_entr" =>
        \A i \in Elems :
            /\ (isnan(X(i)) \/ isnan(Y(i)) \/ (X(i) = PInf /\ Y(i) = PInf)) =>
                   out.data[i] = NaN
            /\ (isinf(X(i)) /\ isinf(Y(i)) /\ ~(X(i) = PInf /\ Y(i) = PInf)) =>
                   out.data[i] = PInf

\* rel_entr(inf, inf)
Wit_C5 ==
    /\ op = "__rel_entr"
    /\ args[1] = <<PInf>>
    /\ args[2] = <<PInf>>
    /\ out.data = <<NaN>>

\* x * (log(x) - log(y)) for positive x and y that are not both infinite
RelEntrValue(x, y) ==
    IF x = PInf THEN PInf
    ELSE IF y = PInf THEN NInf
    ELSE IF x.a = y.a THEN Num(0)
    ELSE XLogDiff(x.a, x.a, y.a)

InFormulaRegion(x, y) == gt0(x) /\ gt0(y) /\ ~(isinf(x) /\ isinf(y))

\* C6 as stated: for inputs that are not NaN the result is 0 where x == 0
\* and y >= 0, the formula where x > 0, y > 0 and not both infinite, and
\* +infinity everywhere else; the formula is evaluated on positive elements only.
Orig_C6 ==
    op = "__rel_entr" =>
        /\ \A v \in eff.logs : gt0(v)
        /\ \A i \in Elems :
             (~isnan(X(i)) /\ ~isnan(Y(i))) =>
                 out.data[i] =
                     IF eq0(X(i)) /\ ge0(Y(i)) THEN Num(0)
                     ELSE IF InFormulaRegion(X(i), Y(i)) THEN RelEntrValue(X(i), Y(i))
                     ELSE PInf

\* C6: as stated, except that rel_entr(+inf, +inf) is NaN, not the default.
Thm_C6 ==
    op = "__rel_entr" =>
        /\ \A v \in eff.logs : gt0(v)
        /\ \A i \in Elems :
             (~isnan(X(i)) /\ ~isnan(Y(i))) =>
                 out.data[i] =
                     IF eq0(X(i)) /\ ge0(Y(i)) THEN Num(0)
                     ELSE IF InFormulaRegion(X(i), Y(i)) THEN RelEntrValue(X(i), Y(i))
                     ELSE IF X(i) = PInf /\ Y(i) = PInf THEN NaN
                     ELSE PInf

\* rel_entr(0, 0) is 0 although log(0) is -infinity
Wit_C6 ==
    /\ op = "__rel_entr"
    /\ args[1] = <<Num(0)>>
    /\ args[2] = <<Num(0)>>
    /\ out.data = <<Num(0)>>
    /\ eff.logs = {}

\* C7: xlogy is 0 wherever x == 0, whatever y is; elsewhere it is
\* x * log(y), so xlogy(2, 1) is 0; the divide and invalid conditions
\* signalled on the way are ignored, none is surfaced.
Thm_C7 ==
    op = "__xlogy" =>
        /\ eff.warnings = {}
        /\ \A i \in Elems :
             /\ eq0(X(i)) => out.data[i] = Num(0)
             /\ ~eq0(X(i)) => out.data[i] = Mul(X(i), Log(Y(i)))
             /\ (X(i) = Num(2) /\ Y(i) = Num(1)) => out.data[i] = Num(0)
             /\ (X(i) = Num(2) /\ Y(i) = Num(2)) => out.data[i] = XLog(2, 2)
             /\ (X(i) = Num(1) /\ Y(i) = Num(0)) => out.data[i] = NInf
             /\ (isnan(X(i)) \/ (~eq0(X(i)) /\ isnan(Y(i)))) => out.data[i] = NaN

\* xlogy(0, 0): log(0) signals a division by zero and 0 * -inf is invalid
Wit_C7 ==
    /\ op = "__xlogy"
    /\ args[1] = <<Num(0)>>
    /\ args[2] = <<Num(0)>>
    /\ eff.raised = {"divide", "invalid"}
    /\ out.data = <<Num(0)>>

ForcedNaN(v, x) == (eq0(x) /\ eq0(v)) \/ isnan(x) \/ isnan(v) \/ le0(v)

\* C8: chdtrc is NaN on the forced-NaN region ((x == 0 and v == 0), x NaN,
\* v NaN, v <= 0), which overrides the other rules; outside it the result is
\* 1 where x < 0 and gammaincc(v/2, x/2) where x >= 0.
Thm_C8 ==
    op = "__chdtrc" =>
        \A i \in Elems :
            /\ eff.prims[i].a = Half(X(i)) /\ eff.prims[i].b = Half(Y(i))
            /\ ForcedNaN(X(i), Y(i)) => out.data[i] = NaN
            /\ (~ForcedNaN(X(i), Y(i)) /\ ~ge0(Y(i))) => out.data[i] = Num(1)
            /\ (~ForcedNaN(X(i), Y(i)) /\ ge0(Y(i))) => out.data[i] = eff.prims[i].r

\* chdtrc(inf, -1) is 1 whatever gammaincc returned
Wit_C8 ==
    /\ op = "__chdtrc"
    /\ args[1] = <<PInf>>
    /\ args[2] = <<Num(-1)>>
    /\ eff.prims[1].r = NaN
    /\ out.data = <<Num(1)>>

Degenerate(v, x) == eq0(v) /\ gt0(x)
BothInf(v, x) == isinf(v) /\ isinf(x)

\* C9: chdtr is 1 where v == 0 and x > 0 and NaN where v and x are both
\* infinite, whatever gammainc returned there; elsewhere it is
\* gammainc(v/2, x/2) unchanged.  The two regions are disjoint, so the
\* corrections give the same result in either order.
Thm_C9 ==
    op = "__chdtr" =>
        \A i \in Elems :
            /\ eff.prims[i].a = Half(X(i)) /\ eff.prims[i].b = Half(Y(i))
            /\ ~(Degenerate(X(i), Y(i)) /\ BothInf(X(i), Y(i)))
            /\ Degenerate(X(i), Y(i)) => out.data[i] = Num(1)
            /\ BothInf(X(i), Y(i)) => out.data[i] = NaN
            /\ (~Degenerate(X(i), Y(i)) /\ ~BothInf(X(i), Y(i))) =>
                   out.data[i] = eff.prims[i].r
            /\ out.data[i] =
                   IF Degenerate(X(i), Y(i)) THEN Num(1)
                   ELSE IF BothInf(X(i), Y(i)) THEN NaN
                   ELSE eff.prims[i].r

\* chdtr(0, 2) is 1 although gammainc returned NaN
Wit_C9 ==
    /\ op = "__chdtr"
    /\ args[1] = <<Num(0)>>
    /\ args[2] = <<Num(2)>>
    /\ eff.prims[1].r = NaN
    /\ out.data = <<Num(1)>>

====
